---------------------------- MODULE Spec2Model ----------------------------
(***************************************************************************)
(* EIOPA risk-free-rate retrieval: the batch script                        *)
(* (Jonathan_automatische_visualisatie.py) and the Streamlit form          *)
(* (streamlit_eiopa.py).                                                   *)
(*                                                                         *)
(* Python values are modelled as follows.                                  *)
(*   None            the empty tuple <<>>; a returned value v is <<v>>     *)
(*   a file name     the tuple of its code points                          *)
(*   an href         the features the matcher reads: whether it contains   *)
(*                   "download" (any case), the file name that follows     *)
(*                   "_en?filename=" and precedes ".zip" (<<>> if none),   *)
(*                   and whether it starts with "http"                     *)
(*   a worksheet     its number of rows; the cell of column C in sheet     *)
(*                   row r (zero-based) is the pair <<sheet, r>>           *)
(*   a DataFrame     [Maturity, cols], cols a sequence of [name, data]     *)
(***************************************************************************)
EXTENDS Integers, Sequences, FiniteSets, TLC

(***************************************************************************)
(* Bounds of the model.                                                    *)
(***************************************************************************)
\* number_input "Number of date selections" is unbounded above; capped here
MaxSel == 2
\* greatest number of anchors on the landing page
MaxLinks == 2
\* greatest number of rows a worksheet holds beyond the first ten
MaxData == 2

NoneV == <<>>
Some(v) == <<v>>
IsSome(v) == v # NoneV

SeqMax(lens) == IF lens = {} THEN 0 ELSE CHOOSE m \in lens : \A k \in lens : k <= m

(***************************************************************************)
(* Periods and the expected file name.                                     *)
(***************************************************************************)
\* the dates the batch script may run on (datetime.now()): <<year, month>>
Todays == { <<2024, 1>>, <<2024, 3>> }

\* the (year, month) pairs offered by the form that the model selects among
Periods == { <<2023, 12>>, <<2024, 2>> }

\* lines 26-31: the month before `today`
PreviousMonth(today) ==
    IF today[2] = 1 THEN <<today[1] - 1, 12>> ELSE <<today[1], today[2] - 1>>

IsLeap(y) == (y % 4 = 0) /\ ((y % 100 # 0) \/ (y % 400 = 0))

\* calendar.monthrange(year, month)[1]
LastDay(y, m) ==
    IF m = 2 THEN (IF IsLeap(y) THEN 29 ELSE 28)
    ELSE IF m \in {4, 6, 9, 11} THEN 30 ELSE 31

\* the format spec :02d, as the two digits it prints
Pad2(m) == <<m \div 10, m % 10>>

\* f"EIOPA_RFR_{target_year}{target_month:02d}{last_day}"
ExpectedFilename(p) == <<"EIOPA_RFR_", p[1], Pad2(p[2]), LastDay(p[1], p[2])>>

(***************************************************************************)
(* The landing page.                                                       *)
(***************************************************************************)
NoFile == <<>>

\* file names an anchor may carry: the right ones, and February with 28 days
LinkFiles ==
    { ExpectedFilename(p) : p \in Periods } \cup
    { <<"EIOPA_RFR_", 2024, Pad2(2), 28>>, NoFile }

Hrefs == [download : BOOLEAN, file : LinkFiles, http : BOOLEAN]

\* requests.get(url, timeout=30) followed by raise_for_status()
FetchOutcomes == { "ok", "timeout", "bad_status" }

\* the condition of the if in the anchor loop
LinkMatches(href, filename) == href.download /\ href.file = filename

\* the returned URL: the site's origin is put before a relative href
AbsoluteUrl(href) == [origin |-> ~href.http, href |-> href]

\* the return None after the anchor loop
NoLinkReturn == NoneV

\* the return None of the except clause
LinkErrorReturn == NoneV

(***************************************************************************)
(* The archive: member names are tuples of code points.                    *)
(***************************************************************************)
\* ".xlsx", ".XLSX" and ".pdf"
DotXlsx == <<46, 120, 108, 115, 120>>
DotXLSX == <<46, 88, 76, 83, 88>>
DotPdf == <<46, 112, 100, 102>>

\* B.xlsx, a-.xlsx, a.xlsx, ab.xlsx, a.pdf, c.XLSX
MemberNames ==
    { <<66>> \o DotXlsx, <<97, 45>> \o DotXlsx, <<97>> \o DotXlsx,
      <<97, 98>> \o DotXlsx, <<97>> \o DotPdf, <<99>> \o DotXLSX }

\* zip_ref.namelist(), as a set: sorted() fixes the order
Archives == SUBSET MemberNames

\* str.endswith
EndsWith(name, suffix) ==
    /\ Len(name) >= Len(suffix)
    /\ SubSeq(name, Len(name) - Len(suffix) + 1, Len(name)) = suffix

\* the order of Python's str comparison: by code point, a prefix first
RECURSIVE StrLess(_, _)
StrLess(a, b) ==
    IF b = <<>> THEN FALSE
    ELSE IF a = <<>> THEN TRUE
    ELSE IF Head(a) # Head(b) THEN Head(a) < Head(b)
    ELSE StrLess(Tail(a), Tail(b))

\* sorted(names)
RECURSIVE Sorted(_)
Sorted(names) ==
    IF names = {} THEN <<>>
    ELSE LET least == CHOOSE x \in names : \A y \in names \ {x} : StrLess(x, y)
         IN  <<least>> \o Sorted(names \ {least})

\* line 77: sorted([f for f in zip_ref.namelist() if f.endswith('.xlsx')])
ExcelFiles(archive) == Sorted({ f \in archive : EndsWith(f, DotXlsx) })

\* line 79: the test that guards the extraction
EnoughExcelFiles(excel_files) == Len(excel_files) >= 3

\* line 80: excel_files[2]
ThirdExcel(excel_files) == excel_files[3]

\* os.path.join(download_dir, third_excel)
JoinPath(dir, name) == <<dir, name>>

\* lines 79-86: the value returned from inside the with block
ExtractResult(archive) ==
    IF EnoughExcelFiles(ExcelFiles(archive))
    THEN Some(JoinPath("downloads", ThirdExcel(ExcelFiles(archive))))
    ELSE NoneV

\* line 90: the return None of the except clause
DownloadErrorReturn == NoneV

\* line 81: the members zip_ref.extract writes into download_dir
ExtractedMembers(archive) ==
    IF EnoughExcelFiles(ExcelFiles(archive))
    THEN { ThirdExcel(ExcelFiles(archive)) }
    ELSE {}

\* a finally block that leaves temp.zip where it is
TempAfterFinally_NoUnlink(exists) == exists

\* lines 91-97: whether temp.zip exists once the finally block has run
TempAfterFinally(exists) == IF exists THEN FALSE ELSE exists

(***************************************************************************)
(* The workbook and the tables read from it.                               *)
(***************************************************************************)
SHEETS ==
    << "RFR_spot_no_VA", "RFR_spot_with_VA", "Spot_NO_VA_shock_UP",
       "Spot_NO_VA_shock_DOWN", "Spot_WITH_VA_shock_UP",
       "Spot_WITH_VA_shock_DOWN" >>

\* the column names of extract_euro_rates, in the order of SHEETS
RATE_COLUMNS ==
    << "Euro_Rate_No_VA", "Euro_Rate_With_VA", "Euro_Rate_No_VA_Up",
       "Euro_Rate_No_VA_Down", "Euro_Rate_With_VA_Up",
       "Euro_Rate_With_VA_Down" >>

\* the options of the multiselect
RATE_OPTIONS == { RATE_COLUMNS[k] : k \in 1..6 }

\* the first row index of iloc[9:, 2]
IlocStart == 9

\* the rows of a worksheet that is present: ten rows and up to MaxData more
SheetRows == (IlocStart + 1)..(IlocStart + 1 + MaxData)

\* a worksheet is absent (<<>>) or has n rows (<<n>>)
SheetStates == { NoneV } \cup { Some(n) : n \in SheetRows }

\* column C of a worksheet with n rows, top to bottom
ColumnC(sheet, n) == [k \in 1..n |-> <<sheet, k - 1>>]

\* pd.read_excel(file, sheet_name=...): the first row becomes the header, the
\* frame holds the rows below it
ReadExcel(sheet, n) == Tail(ColumnC(sheet, n))

\* df.iloc[9:, 2].reset_index(drop=True)
Iloc9(column) ==
    IF Len(column) <= IlocStart THEN <<>>
    ELSE SubSeq(column, IlocStart + 1, Len(column))

\* the Series read from one worksheet
RateSeries(sheet, n) == Iloc9(ReadExcel(sheet, n))

NaN == <<"NaN", 0>>

\* a Series reindexed to n rows: the rows it lacks are NaN
Reindex(data, n) == [k \in 1..n |-> IF k <= Len(data) THEN data[k] ELSE NaN]

\* pd.DataFrame({'Maturity': range(1, m + 1), name: Series, ...}): the index
\* is the union of the indexes of the Series, and the range must have that
\* length; <<>> stands for the ValueError
DataFrame(m, cols) ==
    LET n == IF cols = <<>> THEN m
             ELSE SeqMax({ Len(cols[k].data) : k \in 1..Len(cols) })
    IN  IF n # m THEN NoneV
        ELSE Some([ Maturity |-> [k \in 1..m |-> k],
                    cols |-> [k \in 1..Len(cols) |->
                                [name |-> cols[k].name,
                                 data |-> Reindex(cols[k].data, n)]] ])

Workbooks == [1..6 -> SheetStates]

\* lines 148-172 of extract_euro_rates: the frame built, <<>> on an exception
extract_euro_rates(wb) ==
    IF \E k \in 1..6 : wb[k] = NoneV THEN NoneV
    ELSE LET series == [k \in 1..6 |->
                          [name |-> RATE_COLUMNS[k],
                           data |-> RateSeries(SHEETS[k], wb[k][1])]]
         IN  DataFrame(Len(series[1].data), series)

(***************************************************************************)
(* The per-period projection and the merge of the form.                    *)
(***************************************************************************)
\* f'No_VA_{year}_{month:02d}' and f'With_VA_{year}_{month:02d}'
ColumnName(prefix, p) == <<prefix, p[1], "_", Pad2(p[2])>>

\* lines 106-113: the entries of rates_dict besides Maturity
RatesDict(types, p, no_va, with_va) ==
    (IF "Euro_Rate_No_VA" \in types
     THEN << [name |-> ColumnName("No_VA_", p), data |-> no_va] >> ELSE << >>)
    \o
    (IF "Euro_Rate_With_VA" \in types
     THEN << [name |-> ColumnName("With_VA_", p), data |-> with_va] >> ELSE << >>)

\* lines 99-115: month_df for one period, <<>> when pandas raises
MonthFrame(types, p, s1, s2) ==
    IF s1 = NoneV \/ s2 = NoneV THEN NoneV
    ELSE LET no_va == RateSeries(SHEETS[1], s1[1])
             with_va == RateSeries(SHEETS[2], s2[1])
         IN  DataFrame(Len(no_va), RatesDict(types, p, no_va, with_va))

ColNames(df) == { df.cols[k].name : k \in 1..Len(df.cols) }

\* the pairs of row numbers pd.merge keeps: equal keys, in the order of the
\* left frame
RECURSIVE JoinPairs(_, _, _, _)
JoinPairs(lk, rk, a, b) ==
    IF a > Len(lk) THEN <<>>
    ELSE IF b > Len(rk) THEN JoinPairs(lk, rk, a + 1, 1)
    ELSE (IF lk[a] = rk[b] THEN << <<a, b>> >> ELSE <<>>)
         \o JoinPairs(lk, rk, a, b + 1)

\* the rows of how='outer' that how='inner' drops, as pairs with a 0
RECURSIVE LeftOnly(_, _, _)
LeftOnly(lk, rk, a) ==
    IF a > Len(lk) THEN <<>>
    ELSE (IF \E b \in 1..Len(rk) : rk[b] = lk[a] THEN <<>> ELSE << <<a, 0>> >>)
         \o LeftOnly(lk, rk, a + 1)

RECURSIVE RightOnly(_, _, _)
RightOnly(lk, rk, b) ==
    IF b > Len(rk) THEN <<>>
    ELSE (IF \E a \in 1..Len(lk) : lk[a] = rk[b] THEN <<>> ELSE << <<0, b>> >>)
         \o RightOnly(lk, rk, b + 1)

\* a merge of two frames on Maturity over the given row pairs; a column name
\* found on both sides gets the suffix _x on the left and _y on the right
MergeOver(left, right, pairs) ==
    LET both == ColNames(left) \cap ColNames(right)
        lname(c) == IF c \in both THEN c \o << <<"_x">> >> ELSE c
        rname(c) == IF c \in both THEN c \o << <<"_y">> >> ELSE c
        pick(data, r) == IF r = 0 THEN NaN ELSE data[r]
    IN  [ Maturity |-> [k \in 1..Len(pairs) |->
                          IF pairs[k][1] # 0 THEN left.Maturity[pairs[k][1]]
                          ELSE right.Maturity[pairs[k][2]]],
          cols |-> [k \in 1..Len(left.cols) |->
                      [name |-> lname(left.cols[k].name),
                       data |-> [r \in 1..Len(pairs) |->
                                   pick(left.cols[k].data, pairs[r][1])]]]
                   \o
                   [k \in 1..Len(right.cols) |->
                      [name |-> rname(right.cols[k].name),
                       data |-> [r \in 1..Len(pairs) |->
                                   pick(right.cols[k].data, pairs[r][2])]]] ]

\* pd.merge(..., how='outer'): the rows of either frame
OuterMerge(left, right) ==
    MergeOver(left, right,
              JoinPairs(left.Maturity, right.Maturity, 1, 1)
              \o LeftOnly(left.Maturity, right.Maturity, 1)
              \o RightOnly(left.Maturity, right.Maturity, 1))

\* line 124: pd.merge(final_df, df, on='Maturity'), how='inner' by default
Merge(left, right) ==
    MergeOver(left, right, JoinPairs(left.Maturity, right.Maturity, 1, 1))

\* lines 122-124
RECURSIVE MergeAll(_, _, _)
MergeAll(acc, frames, k) ==
    IF k > Len(frames) THEN acc
    ELSE MergeAll(Merge(acc, frames[k]), frames, k + 1)

\* lines 133-142: int(col[-2:]) succeeds on the two digits of the month and
\* raises on a suffix put there by the merge
LabelParses(name) == name[Len(name)] \notin { <<"_x">>, <<"_y">> }

(***************************************************************************)
(* State.                                                                  *)
(***************************************************************************)
VARIABLES
    surface,          \* which entry point runs: "batch" or "interactive"
    today,            \* batch: datetime.now() as <<year, month>>
    date_selections,  \* form: the (year, month) pairs, in selection order
    rate_types,       \* form: the selected rate types
    pc,               \* position in the running entry point
    i,                \* form: index in date_selections of the current period
    filename,         \* resolver: the expected file name
    scanned,          \* resolver: the anchors of the page scanned so far
    zip_file_url,     \* the resolver's last return value
    linkSituation,    \* what the resolver met on its last call
    excel_file,       \* the last return value of download_and_extract_excel
    tempExists,       \* whether downloads/temp.zip exists
    excel_files,      \* download_and_extract_excel: its local excel_files
    extractedNow,     \* the members the running call has extracted
    dlRet,            \* the value the running call is about to return
    dlExit,           \* how the last call left its try block; "returned"
                      \* once the caller has gone on
    all_rates,        \* form: the frames of the periods read so far
    final_df,         \* form: the merged frame
    exported,         \* form: whether the merged frame was written out
    attempted,        \* form: the periods whose processing has begun
    succeeded,        \* form: the periods whose frame was appended
    reports,          \* form: the st.error messages, each with its period
    log,              \* batch: the records written by logging
    stages,           \* batch: the stages that ran, with their outcome
    wb,               \* batch: the workbook handed to extract_euro_rates
    euro_rates,       \* batch: the last return value of extract_euro_rates
    persisted,        \* batch: the content of Euro_Rates_Percentages.xlsx
    result            \* batch: the value main() returned

vars ==
    << surface, today, date_selections, rate_types, pc, i, filename, scanned,
       zip_file_url, linkSituation, excel_file, tempExists, excel_files,
       extractedNow, dlRet, dlExit, all_rates, final_df, exported, attempted,
       succeeded, reports, log, stages, wb, euro_rates, persisted, result >>

linkVars == << filename, scanned, zip_file_url, linkSituation >>
dlVars == << tempExists, excel_files, extractedNow, dlRet, dlExit >>
formVars == << all_rates, final_df, exported, attempted, succeeded, reports >>
batchVars == << log, stages, wb, euro_rates, persisted, result >>
inputVars == << surface, today, date_selections, rate_types >>

Selections == UNION { [1..n -> Periods] : n \in 1..MaxSel }

\* the selections of the multiselect the model runs with: its default, one
\* of the two curves alone, a shocked curve, all six, none
RateTypeChoices ==
    { { "Euro_Rate_No_VA", "Euro_Rate_With_VA" },
      { "Euro_Rate_With_VA" },
      { "Euro_Rate_No_VA", "Euro_Rate_No_VA_Up" },
      RATE_OPTIONS,
      {} }

Init ==
    /\ surface \in { "batch", "interactive" }
    /\ IF surface = "batch"
       THEN /\ today \in Todays
            /\ date_selections = << >>
            /\ rate_types = {}
            /\ pc = "b_start"
       ELSE /\ today = << >>
            /\ date_selections \in Selections
            /\ rate_types \in RateTypeChoices
            /\ pc = "st_loop"
    /\ i = 1
    /\ filename = NoFile
    /\ scanned = 0
    /\ zip_file_url = NoneV
    /\ linkSituation = "none"
    /\ excel_file = NoneV
    /\ tempExists \in BOOLEAN
    /\ excel_files = << >>
    /\ extractedNow = {}
    /\ dlRet = NoneV
    /\ dlExit = "none"
    /\ all_rates = << >>
    /\ final_df = NoneV
    /\ exported = FALSE
    /\ attempted = << >>
    /\ succeeded = << >>
    /\ reports = << >>
    /\ log = << >>
    /\ stages = << >>
    /\ wb = NoneV
    /\ euro_rates = NoneV
    /\ persisted = NoneV
    /\ result = NoneV

(***************************************************************************)
(* The anchor loop of the two resolvers.  The page is read one anchor at a *)
(* time: each pass either finds the page exhausted and returns None, or    *)
(* meets one more anchor and returns its URL if it matches.                *)
(***************************************************************************)
ScanAnchor(back) ==
    \E more \in BOOLEAN :
       IF ~more
       THEN /\ zip_file_url' = NoLinkReturn
            /\ linkSituation' = "no_match"
            /\ scanned' = 0
            /\ pc' = back
       ELSE /\ scanned < MaxLinks
            /\ \E href \in Hrefs :
                  IF LinkMatches(href, filename)
                  THEN /\ zip_file_url' = Some(AbsoluteUrl(href))
                       /\ linkSituation' = "match"
                       /\ scanned' = 0
                       /\ pc' = back
                  ELSE /\ scanned' = scanned + 1
                       /\ UNCHANGED << zip_file_url, linkSituation, pc >>

(***************************************************************************)
(* download_and_extract_excel(url, download_dir), in three steps: the      *)
(* download and the write of temp.zip, the with block over the archive,    *)
(* and the finally block with the return.                                  *)
(***************************************************************************)
\* lines 69-73
DlRequest ==
    /\ pc = "dl_request"
    /\ \E net \in { "ok", "failed" } :
          IF net = "failed"
          THEN /\ tempExists' = tempExists
               /\ dlRet' = DownloadErrorReturn
               /\ dlExit' = "network"
               /\ pc' = "dl_finally"
          ELSE \E disk \in { "written", "open_error", "write_error" } :
                  /\ tempExists' = (tempExists \/ disk # "open_error")
                  /\ dlRet' = IF disk = "written" THEN dlRet
                              ELSE DownloadErrorReturn
                  /\ dlExit' = IF disk = "written" THEN "running" ELSE "os_error"
                  /\ pc' = IF disk = "written" THEN "dl_zip" ELSE "dl_finally"
    /\ UNCHANGED << inputVars, i, linkVars, excel_file, excel_files,
                    extractedNow, formVars, batchVars >>

\* lines 76-90
DlExtract ==
    /\ pc = "dl_zip"
    /\ \E valid \in BOOLEAN :
          IF ~valid
          THEN /\ dlRet' = DownloadErrorReturn
               /\ dlExit' = "bad_zip"
               /\ UNCHANGED << excel_files, extractedNow >>
          ELSE \E archive \in Archives :
                  /\ excel_files' = ExcelFiles(archive)
                  /\ extractedNow' = ExtractedMembers(archive)
                  /\ dlRet' = ExtractResult(archive)
                  /\ dlExit' = IF EnoughExcelFiles(ExcelFiles(archive))
                               THEN "extracted" ELSE "insufficient"
    /\ pc' = "dl_finally"
    /\ UNCHANGED << inputVars, i, linkVars, excel_file, tempExists, formVars,
                    batchVars >>

\* lines 91-97, and the return to the caller
DlFinally ==
    /\ pc = "dl_finally"
    /\ tempExists' = TempAfterFinally(tempExists)
    /\ excel_file' = dlRet
    /\ dlRet' = NoneV
    /\ excel_files' = << >>
    /\ extractedNow' = {}
    /\ pc' = IF surface = "interactive" THEN "st_read" ELSE "b_after_fetch"
    /\ UNCHANGED << inputVars, i, linkVars, dlExit, formVars, batchVars >>

(***************************************************************************)
(* streamlit_eiopa.main(), from the press of "Extract Rates".              *)
(***************************************************************************)
Report(k, msg) == [period |-> k, msg |-> msg]

\* lines 89-91 and get_download_link_for_date up to raise_for_status
StResolve ==
    /\ pc = "st_loop"
    /\ i <= Len(date_selections)
    /\ attempted' = Append(attempted, i)
    /\ filename' = ExpectedFilename(date_selections[i])
    /\ \E fetch \in FetchOutcomes :
          IF fetch = "ok"
          THEN /\ pc' = "st_scan"
               /\ UNCHANGED << zip_file_url, linkSituation, reports >>
          ELSE /\ reports' = Append(reports, Report(i, "Error retrieving page"))
               /\ zip_file_url' = LinkErrorReturn
               /\ linkSituation' = "transport_failure"
               /\ pc' = "st_after_link"
    /\ UNCHANGED << inputVars, i, scanned, excel_file, dlVars, all_rates,
                    final_df, exported, succeeded, batchVars >>

\* get_download_link_for_date, the loop over the anchors
StScan ==
    /\ pc = "st_scan"
    /\ ScanAnchor("st_after_link")
    /\ UNCHANGED << inputVars, i, filename, excel_file, dlVars, formVars,
                    batchVars >>

\* lines 93-95 and 117-118
StAfterLink ==
    /\ pc = "st_after_link"
    /\ IF IsSome(zip_file_url)
       THEN /\ pc' = "dl_request"
            /\ UNCHANGED << i, reports >>
       ELSE /\ reports' = Append(reports, Report(i, "No rates found"))
            /\ i' = i + 1
            /\ pc' = "st_loop"
    /\ UNCHANGED << inputVars, linkVars, excel_file, dlVars, all_rates,
                    final_df, exported, attempted, succeeded, batchVars >>

\* lines 97-116: the rest of the pass, after download_and_extract_excel
StRead ==
    /\ pc = "st_read"
    /\ IF excel_file = NoneV
       THEN /\ i' = i + 1
            /\ pc' = "st_loop"
            /\ UNCHANGED << all_rates, succeeded >>
       ELSE \E s1 \in SheetStates, s2 \in SheetStates :
               LET month_df == MonthFrame(rate_types, date_selections[i], s1, s2)
               IN  IF month_df = NoneV
                   THEN /\ pc' = "crashed"
                        /\ UNCHANGED << i, all_rates, succeeded >>
                   ELSE /\ all_rates' = Append(all_rates, month_df[1])
                        /\ succeeded' = Append(succeeded, i)
                        /\ i' = i + 1
                        /\ pc' = "st_loop"
    /\ dlExit' = "returned"
    /\ UNCHANGED << inputVars, linkVars, excel_file, tempExists, excel_files,
                    extractedNow, dlRet, final_df, exported, attempted,
                    reports, batchVars >>

\* lines 120-167: merge, table, chart and export
StFinish ==
    /\ pc = "st_loop"
    /\ i > Len(date_selections)
    /\ IF all_rates = << >>
       THEN /\ pc' = "done"
            /\ UNCHANGED << final_df, exported >>
       ELSE LET merged == MergeAll(all_rates[1], all_rates, 2)
            IN  /\ final_df' = Some(merged)
                /\ IF \A c \in ColNames(merged) : LabelParses(c)
                   THEN exported' = TRUE /\ pc' = "done"
                   ELSE exported' = FALSE /\ pc' = "crashed"
    /\ UNCHANGED << inputVars, i, linkVars, excel_file, dlVars, all_rates,
                    attempted, succeeded, reports, batchVars >>

(***************************************************************************)
(* Jonathan_automatische_visualisatie.main().                              *)
(***************************************************************************)
\* line 191: if zip_file_url
ProceedToFetch(url) == IsSome(url)

\* a main() that goes on to the extraction whatever the fetch returned
ProceedToExtract_Always(path) == TRUE

\* line 194: if excel_file
ProceedToExtract(path) == IsSome(path)

\* line 197: if euro_rates is not None
ExtractionSucceeded(rates) == rates # NoneV

\* lines 186-189 and get_download_link up to raise_for_status
BatchStart ==
    /\ pc = "b_start"
    /\ log' = << "Starting" >>
    /\ filename' = ExpectedFilename(PreviousMonth(today))
    /\ \E fetch \in FetchOutcomes :
          IF fetch = "ok"
          THEN /\ pc' = "b_scan"
               /\ UNCHANGED << zip_file_url, linkSituation >>
          ELSE /\ zip_file_url' = LinkErrorReturn
               /\ linkSituation' = "transport_failure"
               /\ pc' = "b_after_link"
    /\ UNCHANGED << inputVars, i, scanned, excel_file, dlVars, formVars,
                    stages, wb, euro_rates, persisted, result >>

\* get_download_link, the loop over the anchors
BatchScan ==
    /\ pc = "b_scan"
    /\ ScanAnchor("b_after_link")
    /\ UNCHANGED << inputVars, i, filename, excel_file, dlVars, formVars,
                    batchVars >>

\* lines 191-193, and 200-201 when no link was returned
BatchAfterLink ==
    /\ pc = "b_after_link"
    /\ stages' = << [stage |-> "resolve", ok |-> IsSome(zip_file_url)] >>
    /\ IF ProceedToFetch(zip_file_url)
       THEN /\ log' = Append(log, "Found download link")
            /\ result' = result
            /\ pc' = "dl_request"
       ELSE /\ log' = Append(log, "Failed")
            /\ result' = Some(FALSE)
            /\ pc' = "done"
    /\ UNCHANGED << inputVars, i, linkVars, excel_file, dlVars, formVars, wb,
                    euro_rates, persisted >>

\* lines 194-201, after download_and_extract_excel
BatchAfterFetch ==
    /\ pc = "b_after_fetch"
    /\ IF ProceedToExtract(excel_file)
       THEN \E w \in Workbooks :
               LET rates == extract_euro_rates(w)
               IN  /\ wb' = Some(w)
                   /\ euro_rates' = rates
                   /\ persisted' = IF rates = NoneV THEN persisted ELSE rates
                   /\ stages' = stages
                        \o << [stage |-> "fetch", ok |-> IsSome(excel_file)],
                              [stage |-> "extract", ok |-> IsSome(rates)] >>
                   /\ IF ExtractionSucceeded(rates)
                      THEN /\ log' = log \o << "Extracted Excel file",
                                               "Successfully extracted" >>
                           /\ result' = Some(TRUE)
                      ELSE /\ log' = log \o << "Extracted Excel file", "Failed" >>
                           /\ result' = Some(FALSE)
       ELSE /\ stages' = Append(stages, [stage |-> "fetch",
                                         ok |-> IsSome(excel_file)])
            /\ log' = Append(log, "Failed")
            /\ result' = Some(FALSE)
            /\ UNCHANGED << wb, euro_rates, persisted >>
    /\ dlExit' = "returned"
    /\ pc' = "done"
    /\ UNCHANGED << inputVars, i, linkVars, excel_file, tempExists,
                    excel_files, extractedNow, dlRet, formVars >>

Next ==
    \/ StResolve
    \/ StScan
    \/ StAfterLink
    \/ StRead
    \/ StFinish
    \/ BatchStart
    \/ BatchScan
    \/ BatchAfterLink
    \/ BatchAfterFetch
    \/ DlRequest
    \/ DlExtract
    \/ DlFinally

Spec == Init /\ [][Next]_vars

(***************************************************************************)
(* Properties.                                                             *)
(***************************************************************************)
InDownload == pc \in { "dl_request", "dl_zip", "dl_finally" }
FormEnded == surface = "interactive" /\ pc \in { "done", "crashed" }
BatchEnded == surface = "batch" /\ pc = "done"
Range(seq) == { seq[k] : k \in 1..Len(seq) }

C2_NotFoundDistinctFromTransportFailure ==
    (pc \in { "st_after_link", "b_after_link" } /\ linkSituation = "no_match")
        => zip_file_url # LinkErrorReturn

\* C3: the form takes the selected periods one after the other in selection
\* order, a failed period never stops the ones after it, and the merge is
\* made exactly when some period succeeded.
C3_FailedPeriodNeverAborts ==
    /\ attempted = [k \in 1..Len(attempted) |-> k]
    /\ FormEnded =>
          /\ Len(attempted) = Len(date_selections)
          /\ (succeeded # << >>) <=> (final_df # NoneV)
          /\ (succeeded # << >>) => exported

\* C4: when the form ends, every period that failed has an error message of
\* its own, and if no period succeeded the user has been told so and the
\* form has not crashed.
C4_EveryFailureReported ==
    FormEnded =>
       /\ \A k \in Range(attempted) \ Range(succeeded) :
             \E n \in 1..Len(reports) : reports[n].period = k
       /\ (succeeded = << >>) => (reports # << >> /\ pc # "crashed")

\* C5: when the six worksheets do not all yield the same number of rows,
\* extract_euro_rates returns no table and writes none.
C5_LengthMismatchFails ==
    ( /\ wb # NoneV
      /\ \A k \in 1..6 : wb[1][k] # NoneV
      /\ \E k \in 2..6 : wb[1][k] # wb[1][1] )
    => (euro_rates = NoneV /\ persisted = NoneV)

\* C6: for a workbook whose six worksheets each hold n data rows below a
\* block of nine header rows, the table has n rows, Maturity 1..n, and each
\* series is column C of its sheet from row index 9 to the last row.
C6_TableIsColumnCFromRowNine ==
    \A n \in 1..(MaxData + 1) :
       (wb # NoneV /\ \A k \in 1..6 : wb[1][k] = Some(IlocStart + n))
       => /\ euro_rates # NoneV
          /\ euro_rates[1].Maturity = [r \in 1..n |-> r]
          /\ \A k \in 1..6 :
                /\ euro_rates[1].cols[k].name = RATE_COLUMNS[k]
                /\ euro_rates[1].cols[k].data
                      = [r \in 1..n |-> <<SHEETS[k], IlocStart + r - 1>>]

\* the member of a sorted list of names with exactly two names before it
ThirdByName(names, x) ==
    x \in names /\ Cardinality({ y \in names : StrLess(y, x) }) = 2

\* C7: with three or more workbook members the call extracts the third by
\* name, only it, and returns its path; with fewer it extracts nothing and
\* fails in a way that differs from a network or corrupt-archive failure.
C7_ThirdMemberOrDistinctFailure ==
    (pc = "dl_finally" /\ dlExit \in { "extracted", "insufficient" }) =>
       IF Cardinality(Range(excel_files)) >= 3
       THEN \E x \in Range(excel_files) :
               /\ ThirdByName(Range(excel_files), x)
               /\ extractedNow = { x }
               /\ dlRet = Some(JoinPath("downloads", x))
       ELSE /\ extractedNow = {}
            /\ dlRet # DownloadErrorReturn

\* the part of C7 about the selection alone
ThirdMemberSelected ==
    (pc = "dl_finally" /\ dlExit \in { "extracted", "insufficient" }) =>
       IF Cardinality(Range(excel_files)) >= 3
       THEN \E x \in Range(excel_files) :
               /\ ThirdByName(Range(excel_files), x)
               /\ extractedNow = { x }
               /\ dlRet = Some(JoinPath("downloads", x))
       ELSE extractedNow = {} /\ dlRet = NoneV

\* the columns of the frames, in input order
RECURSIVE AllColumns(_, _)
AllColumns(frames, k) ==
    IF k > Len(frames) THEN << >>
    ELSE frames[k].cols \o AllColumns(frames, k + 1)

\* C8: the merged frame holds a maturity exactly when every period's frame
\* holds it, each once, and its columns are the periods' columns in input
\* order, cut to those maturities.
C8_InnerMergeOnMaturity ==
    final_df # NoneV =>
       LET merged == final_df[1]
           kept == { m \in Range(all_rates[1].Maturity) :
                       \A k \in 1..Len(all_rates) :
                          m \in Range(all_rates[k].Maturity) }
           flat == AllColumns(all_rates, 1)
       IN  /\ Range(merged.Maturity) = kept
           /\ Len(merged.Maturity) = Cardinality(kept)
           /\ Len(merged.cols) = Len(flat)
           /\ \A j \in 1..Len(flat) :
                 /\ Len(merged.cols[j].data) = Len(merged.Maturity)
                 /\ \A r \in 1..Len(merged.Maturity) :
                       merged.cols[j].data[r]
                          = flat[j].data[merged.Maturity[r]]

\* C8, its case: frames with maturities 1..2 and 1 were merged into one row.
C8_Witness ==
    /\ final_df # NoneV
    /\ Len(all_rates) = 2
    /\ Len(all_rates[1].Maturity) = 2
    /\ Len(all_rates[2].Maturity) = 1
    /\ Len(all_rates[1].cols) > 0
    /\ Len(final_df[1].Maturity) = 1

BatchStages == << "resolve", "fetch", "extract" >>
StageMessages ==
    << "Found download link", "Extracted Excel file", "Successfully extracted" >>

\* C9: a finished batch run has called resolve, fetch and extract in that
\* order, none after a failed one, has logged the start, each stage passed
\* and the failure if any, and has returned True exactly when all three
\* stages succeeded.
C9_BatchStopsAtFirstFailure ==
    BatchEnded =>
       LET n == Len(stages)
           allOk == n = 3 /\ stages[3].ok
       IN  /\ n \in 1..3
           /\ \A k \in 1..n : stages[k].stage = BatchStages[k]
           /\ \A k \in 1..(n - 1) : stages[k].ok
           /\ n < 3 => ~stages[n].ok
           /\ result = Some(allOk)
           /\ log = << "Starting" >>
                    \o [k \in 1..(IF stages[n].ok THEN n ELSE n - 1) |->
                          StageMessages[k]]
                    \o (IF allOk THEN << >> ELSE << "Failed" >>)

\* C9, its case: the run ended at a failed fetch, extract never called.
C9_Witness ==
    /\ BatchEnded
    /\ Len(stages) = 2
    /\ stages[1].ok
    /\ ~stages[2].ok
    /\ result = Some(FALSE)

\* C10: the frame of every period read holds one column for each selected
\* rate type, named after the period's year and two-digit month, and none
\* besides.
C10_ProjectionHasSelectedSeries ==
    \A k \in 1..Len(all_rates) :
       LET p == date_selections[succeeded[k]]
           cols == all_rates[k].cols
       IN  /\ Len(cols) = Cardinality(rate_types)
           /\ \A c \in 1..Len(cols) :
                 /\ cols[c].name[2] = p[1]
                 /\ cols[c].name[4] = Pad2(p[2])

=============================================================================
